---- MODULE Spec2Model ----
(***************************************************************************)
(* Voltage Spike Monitor: the cyclic feed reader of app.py and the alert   *)
(* notifier of telegram_notifier.py.                                       *)
(*                                                                         *)
(* Fixed-point convention: every voltage and current of the program is a   *)
(* Python float; the model holds it as an integer number of TENTHS (a      *)
(* voltage of 220 V is 2200, a current of 0.5 A is 5).  The linear         *)
(* transform voltage = 220 + current * 100 reads 2200 + current * 100 in   *)
(* tenths.  Times are whole seconds.                                       *)
(***************************************************************************)
EXTENDS Integers, Sequences, FiniteSets, TLC

VARIABLES
    csv_data,            \* app.py: the loaded sequence of readings
    current_data_index,  \* app.py: the feed cursor
    response,            \* the result of the last feed request served
    source,              \* dc_current_log.csv as the last load found it
                         \* (in the start-up model: as it lies on disk)
    loads,               \* number of load_csv_data() calls so far
    served,              \* number of feed requests served so far
    since,               \* get_next_data_point() calls since the last load
    started,             \* which script called app.run(), "none" before
    thread,              \* each request thread inside get_next_data_point()
    picked               \* cursor positions read by threaded requests, in order

feedVars ==
    <<csv_data, current_data_index, response, source, loads, served, since,
      started, thread, picked>>

threadVars == <<thread, picked>>

VARIABLES
    now,                 \* the wall clock, datetime.now(), in seconds
    last_alert_time,     \* VoltageSpikeNotifier.last_alert_time
    alert_cooldown,      \* VoltageSpikeNotifier.alert_cooldown
    pc,                  \* where each caller's send coroutine stands
    message,             \* each caller's rendered message (a local)
    attempts,            \* number of bot.send_message() calls made
    log                  \* the send calls made so far, in order

notifierVars ==
    <<now, last_alert_time, alert_cooldown, pc, message, attempts, log>>

VARIABLES
    raised,              \* number of bot calls that raised so far
    probes,              \* number of send_system_status / test_connection calls
    probe,               \* the latest such call and what it returned
    status_sent          \* bot.send_message() calls made by send_system_status

probeVars == <<probes, probe, status_sent>>

VARIABLES
    webhook,             \* WebhookHandler.handle_voltage_data: its last run
    alert,               \* app.py telegram_alert: its last request and answer
    alerts               \* number of telegram_alert requests served

entryVars == <<webhook, alert, alerts>>
alertVars == <<alert, alerts>>

vars == <<feedVars, notifierVars, raised, probeVars, entryVars>>

\* ------------------------------------------------------------- bounds
MaxRows == 2
MaxLoads == 2
MaxServed == 4
MaxLongRows == 102
MaxTime == 450
MaxCalls == 3
MaxProbes == 1
MaxHandled == 3
MaxAlerts == 3

\* ------------------------------------------------- the tabular source
\* csv.DictReader: every row is a dict over the header's field names.
TimestampCells == {"09:00:00"}

CurrentCells == {"0.1", "0.3", "abc"}

Headers == { {"Timestamp", "Current (A)"}, {"Timestamp"}, {"Current (A)"} }

CellsOf(col) == IF col = "Timestamp" THEN TimestampCells ELSE CurrentCells

RowsOver(header) ==
    { r \in [header -> TimestampCells \cup CurrentCells] :
        \A col \in header : r[col] \in CellsOf(col) }

SeqsUpTo(S, n) == UNION { [1..k -> S] : k \in 0..n }

\* A source: the file may be missing; otherwise a header and its rows.
Sources ==
    { [exists |-> FALSE, rows |-> <<>>] } \cup
    { [exists |-> TRUE, rows |-> rs] :
        rs \in UNION { SeqsUpTo(RowsOver(h), MaxRows) : h \in Headers } }

\* float(s): the numerals of the sample cells, in tenths; anything else
\* (a non-numeral string raises ValueError, the None of a short row raises
\* TypeError) fails.
FloatTable == [s \in {"0.1", "0.3"} |-> IF s = "0.1" THEN 1 ELSE 3]

FloatRaises(s) == s \notin DOMAIN FloatTable

FloatOf(s) == FloatTable[s]

\* One iteration of the loop body: row['Current (A)'] and row['Timestamp']
\* raise KeyError on a missing column, float() raises on a bad cell.
RowRaises(row) ==
    \/ "Current (A)" \notin DOMAIN row
    \/ FloatRaises(row["Current (A)"])
    \/ "Timestamp" \notin DOMAIN row

VoltageOf(current) == 2200 + (current * 100)

ReadingOf(row) ==
    LET current == FloatOf(row["Current (A)"])
    IN  [timestamp |-> row["Timestamp"],
         current   |-> current,
         voltage   |-> VoltageOf(current)]

\* The for loop: a reading is appended for row after row, in order; the
\* first row that raises ends the loop with the rows before it appended.
ParseRows(rows) ==
    LET bad  == { i \in 1..Len(rows) : RowRaises(rows[i]) }
        stop == IF bad = {} THEN Len(rows) + 1
                ELSE CHOOSE i \in bad : \A j \in bad : i <= j
    IN  [raised |-> bad # {},
         data   |-> [i \in 1..(stop - 1) |-> ReadingOf(rows[i])]]

\* A plausible slip: the handler keeps the rows appended before the failure.
ExceptHandlerKeepsPrefix(partial) == partial

\* except Exception: csv_data = []
ExceptHandler(partial) == << >>

\* The value of csv_data when load_csv_data() returns.
LoadedData(src) ==
    IF ~src.exists
    THEN ExceptHandler(<< >>)
    ELSE LET r == ParseRows(src.rows)
         IN  IF r.raised THEN ExceptHandler(r.data) ELSE r.data

\* ---------------------------------------------------- alert notifier
\* self.last_alert_time = None
None == -1

\* self.alert_cooldown = 300
AlertCooldown == 300

Callers == {"main", "other"}

\* The clock moves by a little under half a window or by half a window, so
\* that calls fall just inside, exactly on and beyond the window's end.
Ticks == { (AlertCooldown \div 2) - 1, AlertCooldown \div 2 }

SeverityInputs == {"LOW", "MEDIUM", "HIGH", "CRITICAL", "URGENT"}

NoMessage == [emoji |-> "", color |-> "", severity |-> ""]

\* severity_config
severity_config ==
    [s \in {"LOW", "MEDIUM", "HIGH", "CRITICAL"} |->
        CASE s = "LOW"      -> [emoji |-> "warning", color |-> "yellow"]
          [] s = "MEDIUM"   -> [emoji |-> "zap", color |-> "orange"]
          [] s = "HIGH"     -> [emoji |-> "siren", color |-> "red"]
          [] s = "CRITICAL" -> [emoji |-> "boom", color |-> "red"]]

\* config = severity_config.get(severity, severity_config["HIGH"])
ConfigOf(severity) ==
    IF severity \in DOMAIN severity_config
    THEN severity_config[severity]
    ELSE severity_config["HIGH"]

\* The f-string: the motif of config, the severity as it was passed in.
Render(severity) ==
    [emoji    |-> ConfigOf(severity).emoji,
     color    |-> ConfigOf(severity).color,
     severity |-> severity]

\* A plausible slip: the comparison is turned around.
CooldownActiveReversed(last, t, cooldown) ==
    last # None /\ t - last > cooldown

\* A plausible slip: the comparison lets a call through one second late.
CooldownActiveInclusive(last, t, cooldown) ==
    last # None /\ (t - last) <= cooldown

\* if self.last_alert_time: ... if time_since_last < self.alert_cooldown
CooldownActive(last, t, cooldown) ==
    last # None /\ (t - last) < cooldown

\* One stream of control: the single caller, with no send in flight.
SequentialCall(c) == c = "main" /\ \A d \in Callers : pc[d] = "idle"

\* A plausible slip: a skipped alert restarts the cooldown.
SkipAlertRestartsClock(c) ==
    /\ log' = Append(log, [caller |-> c, start |-> now,
                           seen |-> last_alert_time,
                           attempted |-> FALSE, result |-> "False"])
    /\ last_alert_time' = now
    /\ UNCHANGED <<now, alert_cooldown, pc, message, attempts>>
    /\ UNCHANGED <<feedVars, raised, probeVars, alertVars>>

\* A plausible slip: the skipped alert is reported as sent.
SkipAlertReportsSent(c) ==
    /\ log' = Append(log, [caller |-> c, start |-> now,
                           seen |-> last_alert_time,
                           attempted |-> FALSE, result |-> "True"])
    /\ UNCHANGED <<now, last_alert_time, alert_cooldown, pc, message,
                   attempts>>
    /\ UNCHANGED <<feedVars, raised, probeVars, alertVars>>

\* The cooldown branch: logger.info(...); return False
SkipAlert(c) ==
    /\ log' = Append(log, [caller |-> c, start |-> now,
                           seen |-> last_alert_time,
                           attempted |-> FALSE, result |-> "False"])
    /\ UNCHANGED <<now, last_alert_time, alert_cooldown, pc, message,
                   attempts>>
    /\ UNCHANGED <<feedVars, raised, probeVars, alertVars>>

\* Past the gate: the message is built and bot.send_message() is awaited.
StartDelivery(c, severity) ==
    /\ message' = [message EXCEPT ![c] = Render(severity)]
    /\ attempts' = attempts + 1
    /\ pc' = [pc EXCEPT ![c] = "awaiting"]
    /\ log' = Append(log, [caller |-> c, start |-> now,
                           seen |-> last_alert_time,
                           attempted |-> TRUE, result |-> "pending"])
    /\ UNCHANGED <<now, last_alert_time, alert_cooldown>>
    /\ UNCHANGED <<feedVars, raised, probeVars, alertVars>>

\* send_voltage_spike_alert() from its call to its first await (or to its
\* return, when the cooldown is active).
SendAlert(c, severity) ==
    /\ pc[c] = "idle"
    /\ Len(log) < MaxCalls
    /\ IF CooldownActive(last_alert_time, now, alert_cooldown)
       THEN SkipAlert(c)
       ELSE StartDelivery(c, severity)

\* A direct call of send_voltage_spike_alert() with any severity string.
send_voltage_spike_alert(c) ==
    /\ \E severity \in SeverityInputs : SendAlert(c, severity)
    /\ UNCHANGED webhook

\* A plausible slip: the transport's error leaves the coroutine uncaught.
CaughtPropagates == "raised"

\* except Exception as e: logger.error(...); return False
Caught == "False"

\* The log entry of caller c's call in flight.
Slot(c) == CHOOSE i \in 1..Len(log) :
              log[i].caller = c /\ log[i].result = "pending"

\* bot.send_message() returned: self.last_alert_time = datetime.now();
\* return True
DeliverySucceeds(c) ==
    /\ pc[c] = "awaiting"
    /\ last_alert_time' = now
    /\ log' = [log EXCEPT ![Slot(c)].result = "True"]
    /\ pc' = [pc EXCEPT ![c] = "idle"]
    /\ message' = [message EXCEPT ![c] = NoMessage]
    /\ UNCHANGED <<now, alert_cooldown, attempts>>
    /\ UNCHANGED <<feedVars, raised, probeVars, entryVars>>

\* bot.send_message() raised: except Exception: return False
DeliveryFails(c) ==
    /\ pc[c] = "awaiting"
    /\ log' = [log EXCEPT ![Slot(c)].result = Caught]
    /\ pc' = [pc EXCEPT ![c] = "idle"]
    /\ message' = [message EXCEPT ![c] = NoMessage]
    /\ raised' = raised + 1
    /\ UNCHANGED <<now, last_alert_time, alert_cooldown, attempts>>
    /\ UNCHANGED <<feedVars, probeVars, entryVars>>

\* Time passes, also while a delivery is awaited.
Tick ==
    /\ \E d \in Ticks : now + d <= MaxTime /\ now' = now + d
    /\ UNCHANGED <<last_alert_time, alert_cooldown, pc, message, attempts,
                   log>>
    /\ UNCHANGED <<feedVars, raised, probeVars, entryVars>>

StatusInputs == {"ONLINE", "REBOOT"}

\* status_emoji = {...}.get(status, white circle)
status_emoji(status) ==
    CASE status = "ONLINE"      -> "green"
      [] status = "OFFLINE"     -> "red"
      [] status = "MAINTENANCE" -> "yellow"
      [] OTHER                  -> "white"

NoProbe == [op |-> "none", status |-> "", emoji |-> "", result |-> "none"]

\* A plausible slip: the heartbeat honours the alert cooldown.
StatusGated(last, t, cooldown) == last # None /\ (t - last) < cooldown

\* send_system_status() has no cooldown check.
StatusSkipped(last, t, cooldown) == FALSE

\* send_system_status() from its call to its await of bot.send_message().
send_system_status(c) ==
    /\ pc[c] = "idle"
    /\ probes < MaxProbes
    /\ probes' = probes + 1
    /\ \E status \in StatusInputs :
          IF StatusSkipped(last_alert_time, now, alert_cooldown)
          THEN /\ probe' = [op |-> "status", status |-> status,
                            emoji |-> "", result |-> "False"]
               /\ UNCHANGED <<pc, status_sent>>
          ELSE /\ probe' = [op |-> "status", status |-> status,
                            emoji |-> status_emoji(status),
                            result |-> "pending"]
               /\ pc' = [pc EXCEPT ![c] = "awaiting_status"]
               /\ status_sent' = status_sent + 1
    /\ UNCHANGED <<now, last_alert_time, alert_cooldown, message, attempts,
                   log>>
    /\ UNCHANGED <<feedVars, raised, entryVars>>

\* A plausible slip: a delivered heartbeat stamps the cooldown clock.
StatusStamp(last, t) == t

\* send_system_status() assigns nothing to self.last_alert_time.
StatusClock(last, t) == last

\* bot.send_message() returned: return True
StatusDelivered(c) ==
    /\ pc[c] = "awaiting_status"
    /\ probe' = [probe EXCEPT !.result = "True"]
    /\ pc' = [pc EXCEPT ![c] = "idle"]
    /\ last_alert_time' = StatusClock(last_alert_time, now)
    /\ UNCHANGED <<now, alert_cooldown, message, attempts, log>>
    /\ UNCHANGED <<feedVars, raised, probes, status_sent, entryVars>>

\* bot.send_message() raised
StatusFails(c) ==
    /\ pc[c] = "awaiting_status"
    /\ probe' = [probe EXCEPT !.result = Caught]
    /\ pc' = [pc EXCEPT ![c] = "idle"]
    /\ raised' = raised + 1
    /\ UNCHANGED <<now, last_alert_time, alert_cooldown, message, attempts,
                   log>>
    /\ UNCHANGED <<feedVars, probes, status_sent, entryVars>>

\* test_connection() from its call to its await of bot.get_me().
test_connection(c) ==
    /\ pc[c] = "idle"
    /\ probes < MaxProbes
    /\ probes' = probes + 1
    /\ probe' = [op |-> "test", status |-> "", emoji |-> "",
                 result |-> "pending"]
    /\ pc' = [pc EXCEPT ![c] = "awaiting_get_me"]
    /\ UNCHANGED <<now, last_alert_time, alert_cooldown, message, attempts,
                   log>>
    /\ UNCHANGED <<feedVars, raised, status_sent, entryVars>>

\* bot.get_me() returned: return True
GetMeReturns(c) ==
    /\ pc[c] = "awaiting_get_me"
    /\ probe' = [probe EXCEPT !.result = "True"]
    /\ pc' = [pc EXCEPT ![c] = "idle"]
    /\ UNCHANGED <<now, last_alert_time, alert_cooldown, message, attempts,
                   log>>
    /\ UNCHANGED <<feedVars, raised, probes, status_sent, entryVars>>

\* bot.get_me() raised
GetMeFails(c) ==
    /\ pc[c] = "awaiting_get_me"
    /\ probe' = [probe EXCEPT !.result = Caught]
    /\ pc' = [pc EXCEPT ![c] = "idle"]
    /\ raised' = raised + 1
    /\ UNCHANGED <<now, last_alert_time, alert_cooldown, message, attempts,
                   log>>
    /\ UNCHANGED <<feedVars, probes, status_sent, entryVars>>

NoWebhook == [calls |-> 0, voltage |-> 0, severity |-> ""]

NoBody == [kind |-> "none", keys |-> {}, voltage |-> 0, area |-> "",
           severity |-> ""]

NoAlert == [handled |-> FALSE, status |-> 0, success |-> FALSE,
            voltage |-> 0, area |-> "", severity |-> "", body |-> NoBody]

\* VoltageSpikeNotifier.__init__
InitNotifier ==
    /\ now = 0
    /\ last_alert_time = None
    /\ alert_cooldown = AlertCooldown
    /\ pc = [c \in Callers |-> "idle"]
    /\ message = [c \in Callers |-> NoMessage]
    /\ attempts = 0
    /\ log = << >>
    /\ raised = 0
    /\ probes = 0
    /\ probe = NoProbe
    /\ status_sent = 0
    /\ webhook = NoWebhook

\* One stream of control: a send is called only when none is in flight.
SequentialSend ==
    \E c \in Callers : SequentialCall(c) /\ send_voltage_spike_alert(c)

SequentialStatus ==
    \E c \in Callers : SequentialCall(c) /\ send_system_status(c)

SequentialTest ==
    \E c \in Callers : SequentialCall(c) /\ test_connection(c)

NextNotifier ==
    \/ SequentialSend
    \/ \E c \in Callers : DeliverySucceeds(c)
    \/ \E c \in Callers : DeliveryFails(c)
    \/ Tick
    \/ SequentialStatus
    \/ \E c \in Callers : StatusDelivered(c)
    \/ \E c \in Callers : StatusFails(c)
    \/ SequentialTest
    \/ \E c \in Callers : GetMeReturns(c)
    \/ \E c \in Callers : GetMeFails(c)

\* Two coroutines on one notifier: a send may be called while another
\* caller's send is suspended at its await.
ConcurrentSend ==
    \E c \in Callers : send_voltage_spike_alert(c)

NextConcurrent ==
    \/ ConcurrentSend
    \/ \E c \in Callers : DeliverySucceeds(c)
    \/ \E c \in Callers : DeliveryFails(c)
    \/ Tick

\* ------------------------------------------------- webhook handler
\* Voltages in tenths of a volt, on both sides of every threshold.
WebhookVoltages == {2340, 2341, 2599, 2600, 2799, 2800, 2999, 3000}

\* The dictionaries handed to the handler: with or without a voltage.
WebhookData ==
    { [keys |-> {"voltage"}, voltage |-> v] : v \in WebhookVoltages }
        \cup { [keys |-> {}, voltage |-> 0] }

\* data.get('voltage', 0)
VoltageGet(data) == IF "voltage" \in data.keys THEN data.voltage ELSE 0

\* A plausible slip: the lower bounds are exclusive.
SeverityForExclusive(voltage) ==
    IF voltage > 3000 THEN "CRITICAL"
    ELSE IF voltage > 2800 THEN "HIGH"
    ELSE IF voltage > 2600 THEN "MEDIUM"
    ELSE "LOW"

\* if voltage >= 300 ... elif voltage >= 280 ... elif voltage >= 260 ... else
SeverityFor(voltage) ==
    IF voltage >= 3000 THEN "CRITICAL"
    ELSE IF voltage >= 2800 THEN "HIGH"
    ELSE IF voltage >= 2600 THEN "MEDIUM"
    ELSE "LOW"

\* A plausible slip: a reading of exactly 234 V raises an alert.
ConcerningInclusive(voltage) == voltage >= 2340

\* if voltage > 234:
Concerning(voltage) == voltage > 2340

\* WebhookHandler.handle_voltage_data(), up to its await of the notifier.
handle_voltage_data(c) ==
    /\ pc[c] = "idle"
    /\ webhook.calls < MaxHandled
    /\ \E data \in WebhookData :
          LET voltage == VoltageGet(data)
              severity == SeverityFor(voltage)
          IN  /\ webhook' = [calls |-> webhook.calls + 1,
                             voltage |-> voltage, severity |-> severity]
              /\ IF Concerning(voltage)
                 THEN SendAlert(c, severity)
                 ELSE /\ UNCHANGED notifierVars
                      /\ UNCHANGED <<feedVars, raised, probeVars, alertVars>>

SequentialWebhook ==
    \E c \in Callers : SequentialCall(c) /\ handle_voltage_data(c)

NextWebhook ==
    \/ SequentialWebhook
    \/ \E c \in Callers : DeliverySucceeds(c)
    \/ \E c \in Callers : DeliveryFails(c)
    \/ Tick

\* ------------------------------------------------- /api/telegram-alert
\* JSON objects posted to the endpoint: each of the three fields present or
\* missing, the severity recognized or not.
AlertObjects ==
    { [kind |-> "object", keys |-> k, voltage |-> v, area |-> a,
       severity |-> s] :
        k \in SUBSET {"voltage", "area", "severity"},
        v \in {2340, 3000}, a \in {"Kadikoy"},
        s \in {"LOW", "MEDIUM", "HIGH", "CRITICAL", "URGENT"} }

\* A JSON body that is not an object: data.get raises AttributeError.
ArrayBody == [kind |-> "array", keys |-> {}, voltage |-> 0, area |-> "",
              severity |-> ""]

AlertBodies == AlertObjects \cup {ArrayBody}

\* data.get(key, default)
DataGet(data, key, default) ==
    IF key \in data.keys THEN data[key] ELSE default

\* except Exception: return jsonify(success False, ...), 500
AlertError(body) ==
    [handled |-> TRUE, status |-> 500, success |-> FALSE, voltage |-> 0,
     area |-> "", severity |-> "", body |-> body]

\* The try block: the three defaults, success = True, the printed alert and
\* the JSON answer.  telegram_notifier is None and is not consulted.
AlertAccepted(body) ==
    [handled |-> TRUE, status |-> 200, success |-> TRUE,
     voltage |-> DataGet(body, "voltage", 0),
     area |-> DataGet(body, "area", "Unknown Area"),
     severity |-> DataGet(body, "severity", "MEDIUM"),
     body |-> body]

\* POST /api/telegram-alert
telegram_alert ==
    /\ alerts < MaxAlerts
    /\ \E body \in AlertBodies :
          alert' = IF body.kind = "object" THEN AlertAccepted(body)
                   ELSE AlertError(body)
    /\ alerts' = alerts + 1
    /\ UNCHANGED <<feedVars, notifierVars, raised, probeVars, webhook>>

NextAlert ==
    \/ telegram_alert
    \/ Tick

\* ------------------------------------------------------- feed reader
\* A plausible slip: the cursor advances without wrapping.
AdvanceNoWrap(index, length) == index + 1

\* current_data_index = (current_data_index + 1) % len(csv_data)
Advance(index, length) == (index + 1) % length

\* Request threads of the server: Flask's app.run() serves each request
\* in a thread of its own.
Threads == {"t1", "t2"}

\* A thread outside get_next_data_point().
IdleThread == [pc |-> "idle", data_point |-> << >>, next |-> 0]

\* get_next_data_point(): what it returns (data_point: << >> stands for
\* None, <<r>> for the reading r), whether csv_data[current_data_index]
\* raised IndexError, and the cursor it leaves.
NextDataPoint(data, index) ==
    IF data = << >>
    THEN [raised |-> FALSE, data_point |-> << >>, index |-> index]
    ELSE IF index >= Len(data)
         THEN [raised |-> TRUE, data_point |-> << >>, index |-> index]
         ELSE [raised |-> FALSE,
               data_point |-> << data[index + 1] >>,
               index |-> Advance(index, Len(data))]

\* random.uniform(a, b): any value of [a, b]; the model samples the two
\* ends and the middle.
Uniform(a, b) == {a, (a + b) \div 2, b}

\* A plausible slip: a wider random walk around the baseline.
SyntheticVoltagesWide == { 2200 + d : d \in Uniform(-200, 200) }

\* voltage = 220 + random.uniform(-10, 10)
SyntheticVoltages == { 2200 + d : d \in Uniform(-100, 100) }

\* 'current': random.uniform(0, 0.5)
SyntheticCurrents == Uniform(0, 5)

\* datetime.now().strftime('%H:%M:%S'): some wall-clock stamp.
WallClockStamps == {"12:00:00"}

ErrorResponse(op) ==
    [op |-> op, success |-> FALSE, status |-> 500, data |-> << >>]

OkResponse(op, data) ==
    [op |-> op, success |-> TRUE, status |-> 200, data |-> data]

\* load_csv_data(): replaces csv_data; current_data_index is not declared
\* global in it and is not assigned.
load_csv_data ==
    /\ loads < MaxLoads
    /\ \E src \in Sources :
            /\ source' = src
            /\ csv_data' = LoadedData(src)
    /\ loads' = loads + 1
    /\ since' = 0
    /\ UNCHANGED <<current_data_index, response, served, started, threadVars>>
    /\ UNCHANGED <<notifierVars, raised, probeVars, entryVars>>

\* GET /api/voltage-data
get_voltage_data ==
    /\ served < MaxServed
    /\ served' = served + 1
    /\ since' = since + 1
    /\ LET r == NextDataPoint(csv_data, current_data_index)
       IN  IF r.raised
           THEN /\ response' = ErrorResponse("voltage-data")
                /\ UNCHANGED current_data_index
           ELSE IF r.data_point # << >>
                THEN /\ response' = OkResponse("voltage-data", r.data_point)
                     /\ current_data_index' = r.index
                ELSE /\ \E t \in WallClockStamps, v \in SyntheticVoltages,
                          c \in SyntheticCurrents :
                            response' = OkResponse("voltage-data",
                                << [timestamp |-> t, current |-> c,
                                    voltage |-> v] >>)
                     /\ current_data_index' = r.index
    /\ UNCHANGED <<csv_data, source, loads, started, threadVars>>
    /\ UNCHANGED <<notifierVars, raised, probeVars, entryVars>>

RecentLimit == 100

\* A plausible slip: the slice keeps the first records instead of the last.
RecentDataFirst(data) ==
    IF Len(data) > RecentLimit THEN SubSeq(data, 1, RecentLimit) ELSE data

\* csv_data[-100:] if len(csv_data) > 100 else csv_data
RecentData(data) ==
    IF Len(data) > RecentLimit
    THEN SubSeq(data, Len(data) - RecentLimit + 1, Len(data))
    ELSE data

\* GET /api/csv-data
get_csv_data ==
    /\ served < MaxServed
    /\ served' = served + 1
    /\ response' = OkResponse("csv-data", RecentData(csv_data))
    /\ UNCHANGED <<csv_data, current_data_index, source, loads, since,
                   started, threadVars>>
    /\ UNCHANGED <<notifierVars, raised, probeVars, entryVars>>

NoResponse == [op |-> "none", success |-> TRUE, status |-> 200, data |-> << >>]

\* Module import: csv_data = [], current_data_index = 0.
InitFeed ==
    /\ alert = NoAlert
    /\ alerts = 0
    /\ csv_data = << >>
    /\ current_data_index = 0
    /\ response = NoResponse
    /\ source = [exists |-> FALSE, rows |-> << >>]
    /\ loads = 0
    /\ served = 0
    /\ since = 0
    /\ started = "none"
    /\ thread = [t \in Threads |-> IdleThread]
    /\ picked = << >>

NextFeed == load_csv_data \/ get_voltage_data \/ get_csv_data

\* The process after the module's import and the notifier's construction.
Init == InitFeed /\ InitNotifier

SpecFeed == Init /\ [][NextFeed]_vars

\* A long recording: row i carries the stamp of i and one of the sample
\* currents.
LongSource(n) ==
    [exists |-> TRUE,
     rows |-> [i \in 1..n |->
                [c \in {"Timestamp", "Current (A)"} |->
                    IF c = "Timestamp" THEN ToString(i)
                    ELSE IF i % 2 = 0 THEN "0.1" ELSE "0.3"]]]

\* The server after its start-up load of a recording of up to MaxLongRows
\* rows (app.py run as the main program).
InitLoaded ==
    /\ alert = NoAlert
    /\ alerts = 0
    /\ \E n \in 0..MaxLongRows :
            /\ source = LongSource(n)
            /\ csv_data = LoadedData(LongSource(n))
    /\ current_data_index = 0
    /\ response = NoResponse
    /\ loads = 1
    /\ served = 0
    /\ since = 0
    /\ started = "app.py"
    /\ thread = [t \in Threads |-> IdleThread]
    /\ picked = << >>

NextServe == get_voltage_data \/ get_csv_data

InitServe == InitLoaded /\ InitNotifier

SpecServe == InitServe /\ [][NextServe]_vars

\* --------------------------------------------- threaded feed requests
\* get_next_data_point() in thread t, one shared-memory access at a time.
\* 'if not csv_data: return None', and the synthetic answer of the route.
NextOnEmpty(t) ==
    /\ thread[t].pc = "idle"
    /\ served < MaxServed
    /\ csv_data = << >>
    /\ \E ts \in WallClockStamps, v \in SyntheticVoltages,
          c \in SyntheticCurrents :
            response' = OkResponse("voltage-data",
                << [timestamp |-> ts, current |-> c, voltage |-> v] >>)
    /\ served' = served + 1
    /\ since' = since + 1
    /\ UNCHANGED <<csv_data, current_data_index, source, loads, started,
                   threadVars>>
    /\ UNCHANGED <<notifierVars, raised, probeVars, entryVars>>

\* data_point = csv_data[current_data_index]
PickRecord(t) ==
    /\ thread[t].pc = "idle"
    /\ Len(picked) < MaxServed
    /\ csv_data # << >>
    /\ current_data_index < Len(csv_data)
    /\ thread' = [thread EXCEPT ![t] =
                    [pc |-> "picked",
                     data_point |-> << csv_data[current_data_index + 1] >>,
                     next |-> 0]]
    /\ picked' = Append(picked, current_data_index)
    /\ UNCHANGED <<csv_data, current_data_index, response, source, loads,
                   served, since, started>>
    /\ UNCHANGED <<notifierVars, raised, probeVars, entryVars>>

\* The right-hand side (current_data_index + 1) % len(csv_data), read and
\* computed before the store.
ComputeNext(t) ==
    /\ thread[t].pc = "picked"
    /\ thread' = [thread EXCEPT ![t].pc = "computed",
                                ![t].next = Advance(current_data_index,
                                                    Len(csv_data))]
    /\ UNCHANGED <<csv_data, current_data_index, response, source, loads,
                   served, since, started, picked>>
    /\ UNCHANGED <<notifierVars, raised, probeVars, entryVars>>

\* The store to current_data_index, return data_point and the route's
\* JSON answer.
StoreNext(t) ==
    /\ thread[t].pc = "computed"
    /\ current_data_index' = thread[t].next
    /\ response' = OkResponse("voltage-data", thread[t].data_point)
    /\ served' = served + 1
    /\ since' = since + 1
    /\ thread' = [thread EXCEPT ![t] = IdleThread]
    /\ UNCHANGED <<csv_data, source, loads, started, picked>>
    /\ UNCHANGED <<notifierVars, raised, probeVars, entryVars>>

NextThreaded ==
    \/ \E t \in Threads : NextOnEmpty(t)
    \/ \E t \in Threads : PickRecord(t)
    \/ \E t \in Threads : ComputeNext(t)
    \/ \E t \in Threads : StoreNext(t)

SpecThreaded == InitServe /\ [][NextThreaded]_vars

\* ------------------------------------------------------- start-up
\* The module has been imported and dc_current_log.csv lies on disk in
\* some condition; no script has called app.run() yet.
InitImported ==
    /\ alert = NoAlert
    /\ alerts = 0
    /\ csv_data = << >>
    /\ current_data_index = 0
    /\ response = NoResponse
    /\ source \in Sources
    /\ loads = 0
    /\ served = 0
    /\ since = 0
    /\ started = "none"
    /\ thread = [t \in Threads |-> IdleThread]
    /\ picked = << >>

\* python app.py: if __name__ == '__main__': load_csv_data(); app.run(...)
app_main ==
    /\ started = "none"
    /\ csv_data' = LoadedData(source)
    /\ loads' = loads + 1
    /\ since' = 0
    /\ started' = "app.py"
    /\ UNCHANGED <<current_data_index, response, source, served, threadVars>>
    /\ UNCHANGED <<notifierVars, raised, probeVars, entryVars>>

\* python start.py: main() ends in 'from app import app; app.run(...)';
\* app's main block does not run and load_csv_data() is not called.
start_main ==
    /\ started = "none"
    /\ started' = "start.py"
    /\ UNCHANGED <<csv_data, current_data_index, response, source, loads,
                   served, since, threadVars>>
    /\ UNCHANGED <<notifierVars, raised, probeVars, entryVars>>

\* Requests are served once app.run() has been called.
ServeNext == started # "none" /\ get_voltage_data

ServeRecent == started # "none" /\ get_csv_data

NextStartup == app_main \/ start_main \/ ServeNext \/ ServeRecent

InitStartup == InitImported /\ InitNotifier

SpecStartup == InitStartup /\ [][NextStartup]_vars

SpecNotifier == Init /\ [][NextNotifier]_vars

SpecWebhook == Init /\ [][NextWebhook]_vars

SpecAlert == Init /\ [][NextAlert]_vars

SpecConcurrent == Init /\ [][NextConcurrent]_vars

\* --------------------------------------------------- notifier: claims
\* A send call was made in this step.
SendCalled == Len(log') = Len(log) + 1

\* The Cooling state of the clock as the caller finds it.
Cooling ==
    last_alert_time # None /\ now - last_alert_time < alert_cooldown

\* C1: no two delivery attempts start less than one cooldown apart: a send
\* called less than alert_cooldown after a call that attempted delivery
\* returns False as suppressed and attempts nothing.
C1_OneAttemptPerWindow ==
    \A i, j \in 1..Len(log) :
        (i < j /\ log[i].attempted
            /\ log[j].start - log[i].start < alert_cooldown)
        => (~log[j].attempted /\ log[j].result = "False")

\* C2: once a send that attempted delivery has returned, whether the
\* delivery succeeded or failed, the cooldown clock holds a time no earlier
\* than that call.
C2_AttemptSetsClock ==
    \A i \in 1..Len(log) :
        (log[i].attempted /\ log[i].result # "pending")
        => (last_alert_time # None /\ last_alert_time >= log[i].start)

\* C3: a send called in the Cooling state returns False at once: it builds
\* no message, attempts no delivery, and leaves last_alert_time and
\* alert_cooldown as they were.
C3_CoolingSendIsInert ==
    [][ (SendCalled /\ Cooling) =>
          /\ ~log'[Len(log')].attempted
          /\ log'[Len(log')].result = "False"
          /\ message' = message
          /\ attempts' = attempts
          /\ pc' = pc
          /\ last_alert_time' = last_alert_time
          /\ alert_cooldown' = alert_cooldown ]_vars

\* C3 witness: a call suppressed one second before the window's end.
C3_Witness ==
    \E i \in 1..Len(log) :
        /\ ~log[i].attempted
        /\ log[i].seen # None
        /\ log[i].start - log[i].seen = alert_cooldown - 1
        /\ last_alert_time = log[i].seen

\* C4 as stated: a call with no earlier attempt, or with every earlier
\* attempting call at least alert_cooldown before it, attempts delivery.
C4_SpacedCallsAttempt ==
    \A j \in 1..Len(log) :
        (\A i \in 1..(j - 1) :
            log[i].attempted =>
                log[j].start - log[i].start >= alert_cooldown)
        => log[j].attempted

\* C4 amended: a send called when last_alert_time is unset, or at least
\* alert_cooldown after the time last_alert_time holds, attempts delivery.
C4_IdleSendAttempts ==
    [][ (SendCalled /\ ~Cooling) =>
          /\ log'[Len(log')].attempted
          /\ attempts' = attempts + 1 ]_vars

\* C4 witness: a call made exactly alert_cooldown after the recorded time
\* attempted delivery.
C4_Witness ==
    \E i \in 1..Len(log) :
        /\ log[i].attempted
        /\ log[i].seen # None
        /\ log[i].start - log[i].seen = alert_cooldown

\* The transport raised in this step.
TransportRaised == raised' = raised + 1

\* C11: a transport error in send(), send_status() or test_connection()
\* ends the call with False, never with the error, and is not retried; a
\* send() call makes at most one delivery attempt.
C11_FaultsReturnFalse ==
    [][ /\ TransportRaised =>
            \E c \in Callers :
                /\ pc[c] # "idle"
                /\ pc'[c] = "idle"
                /\ pc[c] = "awaiting" => log'[Slot(c)].result = "False"
                /\ pc[c] \in {"awaiting_status", "awaiting_get_me"}
                      => probe'.result = "False"
                /\ attempts' = attempts
                /\ status_sent' = status_sent
        /\ attempts' =
              Cardinality({ i \in 1..Len(log') : log'[i].attempted }) ]_vars

\* C11 witness: a failed alert delivery and a failed heartbeat, both
\* answered False.
C11_Witness ==
    /\ raised = 2
    /\ probe.op = "status"
    /\ probe.result = "False"
    /\ \E i \in 1..Len(log) : log[i].attempted /\ log[i].result = "False"

\* C14: once set, last_alert_time never decreases, and only a send() whose
\* delivery returned changes it.
C14_ClockMonotone ==
    [][ /\ last_alert_time # None => last_alert_time' >= last_alert_time
        /\ last_alert_time' # last_alert_time =>
              \E c \in Callers :
                  /\ pc[c] = "awaiting"
                  /\ pc'[c] = "idle"
                  /\ log'[Slot(c)].result = "True" ]_vars

\* C14 witness: the clock was set, then set again one window later, with a
\* heartbeat or probe in the run.
C14_Witness ==
    /\ probe.op # "none"
    /\ \E i, j \in 1..Len(log) :
          /\ i < j
          /\ log[i].result = "True"
          /\ log[j].result = "True"
          /\ log[j].seen # None
          /\ last_alert_time > log[j].seen

\* A send_system_status() call was made in this step.
StatusCalled == probes' = probes + 1 /\ probe'.op = "status"

\* C15: send_status() attempts delivery on every call, also in the Cooling
\* state, and no step of send_status() or test_connection() changes the
\* cooldown state.
C15_ProbesIgnoreCooldown ==
    [][ /\ StatusCalled => status_sent' = status_sent + 1
        /\ probe' # probe =>
              /\ last_alert_time' = last_alert_time
              /\ alert_cooldown' = alert_cooldown
              /\ log' = log
              /\ attempts' = attempts ]_vars

\* C15 witness: a heartbeat in flight while the notifier is Cooling.
C15_Witness ==
    /\ pc["main"] = "awaiting_status"
    /\ status_sent = 1
    /\ Cooling

\* C16: the message of a non-suppressed send() carries a recognized
\* severity (an unrecognized one is rendered as HIGH) with the motif of
\* that severity.
C16_UnknownSeverityIsHigh ==
    \A c \in Callers :
        message[c] # NoMessage =>
            /\ message[c].severity \in {"LOW", "MEDIUM", "HIGH", "CRITICAL"}
            /\ message[c].emoji = severity_config[message[c].severity].emoji
            /\ message[c].color = severity_config[message[c].severity].color

\* C19: a send() returns True exactly when it attempted delivery and the
\* transport did not raise; a suppressed call returns False.
C19_TrueIffDelivered ==
    [][ /\ \A c \in Callers :
              (pc[c] = "awaiting" /\ pc'[c] = "idle") =>
                  (log'[Slot(c)].result = "True" <=> raised' = raised)
        /\ \A i \in 1..Len(log') :
              /\ log'[i].result \in {"pending", "True", "False"}
              /\ log'[i].result = "True" => log'[i].attempted
              /\ ~log'[i].attempted => log'[i].result = "False" ]_vars

\* C19 witness: one run with a failed delivery, a successful one and a
\* suppressed call.
C19_Witness ==
    \E i, j, k \in 1..Len(log) :
        /\ log[i].attempted /\ log[i].result = "False"
        /\ log[j].attempted /\ log[j].result = "True"
        /\ ~log[k].attempted /\ log[k].result = "False"

\* C23: with send() calls that do not overlap, two calls that both return
\* True start at least alert_cooldown apart, whatever suppressed or failed
\* sends, heartbeats and connection tests lie between them.
C23_SuccessesSpaced ==
    \A i, j \in 1..Len(log) :
        (i < j /\ log[i].result = "True" /\ log[j].result = "True")
            => /\ log[j].start - log[i].start >= alert_cooldown
               /\ log[j].seen # None
               /\ log[j].start - log[j].seen >= alert_cooldown

\* C23 witness: two successful sends exactly one cooldown apart, with a
\* suppressed send and a heartbeat or connection test in the run.
C23_Witness ==
    /\ Len(log) = 3
    /\ log[1].result = "True"
    /\ ~log[2].attempted
    /\ log[3].result = "True"
    /\ log[3].start - log[1].start = alert_cooldown
    /\ probe.result = "True"

\* C12: the handler's severity has inclusive lower bounds: 300 V and above
\* is CRITICAL, 280 V up to 300 V is HIGH, 260 V up to 280 V is MEDIUM and
\* anything below 260 V is LOW; exactly one of the four applies.
C12_SeverityBands ==
    webhook.calls > 0 =>
        /\ webhook.severity \in {"LOW", "MEDIUM", "HIGH", "CRITICAL"}
        /\ webhook.severity = "CRITICAL" <=> webhook.voltage >= 3000
        /\ webhook.severity = "HIGH" <=>
              (2800 <= webhook.voltage /\ webhook.voltage < 3000)
        /\ webhook.severity = "MEDIUM" <=>
              (2600 <= webhook.voltage /\ webhook.voltage < 2800)
        /\ webhook.severity = "LOW" <=> webhook.voltage < 2600

\* C12 witness: a reading of exactly 280 V was classified.
C12_Witness ==
    webhook.calls > 0 /\ webhook.voltage = 2800 /\ webhook.severity = "HIGH"

\* The handler ran in this step.
WebhookHandled == webhook'.calls = webhook.calls + 1

\* C13: the handler calls send() exactly when the voltage is above 234 V
\* (a missing voltage counts as 0), and the severity it hands over is the
\* class of that voltage.
C13_TriggerAbove234 ==
    [][ /\ WebhookHandled => (SendCalled <=> webhook'.voltage > 2340)
        /\ SendCalled =>
              /\ WebhookHandled
              /\ \A c \in Callers :
                    pc'[c] = "awaiting" =>
                        message'[c].severity =
                            (IF webhook'.voltage >= 3000 THEN "CRITICAL"
                             ELSE IF webhook'.voltage >= 2800 THEN "HIGH"
                             ELSE IF webhook'.voltage >= 2600 THEN "MEDIUM"
                             ELSE "LOW") ]_vars

\* C13 witness: a reading at or below 234 V was handled without a send, then
\* 234.1 V was handed to send() as LOW.
C13_Witness ==
    /\ webhook.calls = 2
    /\ webhook.voltage = 2341
    /\ Len(log) = 1
    /\ log[1].attempted
    /\ message["main"].severity = "LOW"

\* C17: a submission with missing or invalid fields is never answered
\* with an error; a missing area becomes "Unknown Area" and a missing or
\* unrecognized severity becomes HIGH.
C17_DefaultsNeverRejected ==
    alert.handled =>
        /\ alert.status = 200
        /\ "area" \notin alert.body.keys => alert.area = "Unknown Area"
        /\ ("severity" \notin alert.body.keys
              \/ alert.body.severity
                    \notin {"LOW", "MEDIUM", "HIGH", "CRITICAL"})
              => alert.severity = "HIGH"

\* C18: each accepted submission results in a call of the notifier's
\* send(), and the success field is the outcome of that call (false when
\* no notifier is configured).
C18_EndpointCallsSend ==
    (alert.handled /\ alert.status = 200) =>
        /\ Len(log) >= alerts
        /\ alert.success =
              (Len(log) > 0 /\ log[Len(log)].result = "True")

\* C20: two overlapping send() calls never both pass the cooldown gate: no
\* two calls that started less than alert_cooldown apart have both
\* attempted delivery while one of them was still awaiting its delivery.
C20_OverlappingSendsExclude ==
    \A i, j \in 1..Len(log) :
        (/\ i < j
         /\ log[i].result = "pending"
         /\ log[j].start - log[i].start < alert_cooldown)
            => ~(log[i].attempted /\ log[j].attempted)

\* ------------------------------------------------ feed reader: claims
\* C21: with several callers in get_next_data_point() at once, the read of
\* the cursor and its increment act as one step: the k-th read finds the
\* cursor at position k - 1 (mod L), and once all calls have returned the
\* cursor has advanced by their number (mod L).
C21_NextIsAtomic ==
    csv_data # << >> =>
        /\ \A k \in 1..Len(picked) : picked[k] = (k - 1) % Len(csv_data)
        /\ (\A t \in Threads : thread[t].pc = "idle") =>
              current_data_index = Len(picked) % Len(csv_data)

\* C22: on every start-up path the feed is loaded exactly once before the
\* first request is served, so a request against a usable, non-empty
\* recording is answered from the recording and never with synthetic data.
C22_LoadedBeforeServing ==
    (served > 0 /\ LoadedData(source) # << >>) =>
        /\ loads = 1
        /\ csv_data = LoadedData(source)
        /\ response.op = "voltage-data" =>
              \E i \in 1..Len(csv_data) : response.data = << csv_data[i] >>

Min(a, b) == IF a < b THEN a ELSE b

\* A voltage-data request was served in this step.
NextServed == served' = served + 1 /\ response'.op = "voltage-data"

\* A csv-data request was served in this step.
RecentServed == served' = served + 1 /\ response'.op = "csv-data"

\* C5: with a non-empty feed of length L loaded once, the k-th next() since
\* the load answers, without error, the reading at position (k-1) mod L.
C5_NextIsCyclic ==
    (loads = 1 /\ csv_data # << >> /\ since >= 1
        /\ response.op = "voltage-data")
    => /\ response.success
       /\ response.data =
            << csv_data[((since - 1) % Len(csv_data)) + 1] >>

\* C5 witness: call L+1 on a feed of two different readings wrapped around
\* to the first reading.
C5_Witness ==
    /\ loads = 1
    /\ Len(csv_data) = 2
    /\ csv_data[1] # csv_data[2]
    /\ since = 3
    /\ response.op = "voltage-data"
    /\ response.data = << csv_data[1] >>

\* C6: whenever the sequence is non-empty the cursor indexes it.
C6_CursorInRange ==
    csv_data # << >> =>
        (0 <= current_data_index /\ current_data_index < Len(csv_data))

\* C7: the first next() after any load() answers the first record of the
\* newly loaded sequence.
C7_LoadResetsCursor ==
    (loads >= 1 /\ csv_data # << >> /\ since = 1
        /\ response.op = "voltage-data")
    => response.data = << csv_data[1] >>

C9_EmptyFeedSynthetic ==
    [][ (NextServed /\ csv_data = << >>) =>
          /\ response'.success
          /\ Len(response'.data) = 1
          /\ 2100 <= response'.data[1].voltage
          /\ response'.data[1].voltage <= 2300
          /\ 0 <= response'.data[1].current
          /\ response'.data[1].current <= 5
          /\ current_data_index' = current_data_index ]_vars

\* C9 witness: a load that found nothing usable, then a synthetic reading
\* at the top of the voltage range.
C9_Witness ==
    /\ loads >= 1
    /\ csv_data = << >>
    /\ since >= 1
    /\ response.op = "voltage-data"
    /\ response.data[1].voltage = 2300

\* A row the loader cannot use: a column is missing or the current cell is
\* no numeral.
UnusableRow(row) ==
    \/ "Timestamp" \notin DOMAIN row
    \/ "Current (A)" \notin DOMAIN row
    \/ row["Current (A)"] \notin {"0.1", "0.3"}

\* C10: after a load of a missing source, or of a source with an unusable
\* row at any position, the sequence is empty.
C10_BadSourceGivesEmpty ==
    (loads >= 1 /\ (\/ ~source.exists
                    \/ \E i \in 1..Len(source.rows) :
                          UnusableRow(source.rows[i])))
    => csv_data = << >>

\* C10 witness: a good first row followed by an unusable last row.
C10_Witness ==
    /\ loads >= 1
    /\ source.exists
    /\ Len(source.rows) = MaxRows
    /\ ~UnusableRow(source.rows[1])
    /\ UnusableRow(source.rows[MaxRows])
    /\ csv_data = << >>

====
